---------------------------- MODULE Spec2Model ----------------------------
(***************************************************************************)
(* A model of the command registry (internals/decorator.py), the shipped   *)
(* command modules (commands/*.py) and the dispatcher (cli.py): import of  *)
(* the command modules, build_parser, parse_args and the guarded handler   *)
(* call of main.  argparse is modelled as CPython 3.11 implements it, for  *)
(* the argument shapes the registry can declare (one-value positionals,    *)
(* one-value options, store_true options, the automatic -h/--help, and the *)
(* required sub-command positional).                                       *)
(***************************************************************************)
EXTENDS Integers, Sequences, FiniteSets, TLC

VARIABLES
    pc,        \* where the process is: "import", "build_parser", "parse_args", "dispatch", "done"
    imported,  \* command modules whose body has run (Python runs a module body once)
    registry,  \* COMMAND_REGISTRY: a dict, kept as its items in insertion order
    regLog,    \* history: the cli_command registrations, oldest first
    argv,      \* the argument list main was called with, once parse_args has read it
    parser,    \* what build_parser returned
    args,      \* the argparse.Namespace parse_args returned
    called,    \* history: the handlers main invoked and how each call ended, oldest first
    stdout,    \* what the handlers printed
    stderr,    \* lines written to the error stream by main's fault path
    logs,      \* records emitted through logging by main
    ret        \* how main ended: a returned value or an exception leaving main

vars == <<pc, imported, registry, regLog, argv, parser, args, called, stdout, stderr, logs, ret>>

-----------------------------------------------------------------------------
(* Bounds of the model.                                                    *)

\* the longest argument list the shipped program is called with, the
\* sub-command included
MaxArgv == 5
\* the most registrations made by command modules of any kind
MaxRegs == 3
\* the longest argument list a program of such command modules is called with
MaxArgvAny == 2

-----------------------------------------------------------------------------
(* Python values.  One record shape for all, so that any two compare.      *)

VNone == [t |-> "None", s |-> "", i |-> 0]
VStr(x) == [t |-> "str", s |-> x, i |-> 0]
VInt(n) == [t |-> "int", s |-> "", i |-> n]
VBool(b) == [t |-> "bool", s |-> "", i |-> IF b THEN 1 ELSE 0]
VFunc(f) == [t |-> "function", s |-> f, i |-> 0]

-----------------------------------------------------------------------------
(* Strings.  TLC cannot look inside a string, so the characters of every   *)
(* string the model handles are spelled out once, and str operations work  *)
(* on the characters.                                                      *)

Strings ==
    {"status", "hello", "greet", "greet-flags", "nope", "Bob", "42",
     "-p", "--person", "-a", "--age", "-e", "--excited", "-h", "--help",
     "p", "a", "e", "h", "person", "age", "excited", "help", "command", "func"}

Chars(s) ==
    CASE s = "status" -> <<"s", "t", "a", "t", "u", "s">>
      [] s = "hello" -> <<"h", "e", "l", "l", "o">>
      [] s = "greet" -> <<"g", "r", "e", "e", "t">>
      [] s = "greet-flags" -> <<"g", "r", "e", "e", "t", "-", "f", "l", "a", "g", "s">>
      [] s = "nope" -> <<"n", "o", "p", "e">>
      [] s = "Bob" -> <<"B", "o", "b">>
      [] s = "42" -> <<"4", "2">>
      [] s = "-p" -> <<"-", "p">>
      [] s = "--person" -> <<"-", "-", "p", "e", "r", "s", "o", "n">>
      [] s = "-a" -> <<"-", "a">>
      [] s = "--age" -> <<"-", "-", "a", "g", "e">>
      [] s = "-e" -> <<"-", "e">>
      [] s = "--excited" -> <<"-", "-", "e", "x", "c", "i", "t", "e", "d">>
      [] s = "-h" -> <<"-", "h">>
      [] s = "--help" -> <<"-", "-", "h", "e", "l", "p">>
      [] s = "p" -> <<"p">>
      [] s = "a" -> <<"a">>
      [] s = "e" -> <<"e">>
      [] s = "h" -> <<"h">>
      [] s = "person" -> <<"p", "e", "r", "s", "o", "n">>
      [] s = "age" -> <<"a", "g", "e">>
      [] s = "excited" -> <<"e", "x", "c", "i", "t", "e", "d">>
      [] s = "help" -> <<"h", "e", "l", "p">>
      [] s = "command" -> <<"c", "o", "m", "m", "a", "n", "d">>
      [] s = "func" -> <<"f", "u", "n", "c">>

\* the string spelled cs
FromChars(cs) == CHOOSE s \in Strings : Chars(s) = cs

\* code points, as far as the order of the characters in use goes
Ord(c) ==
    CASE c = "-" -> 45 [] c = "2" -> 50 [] c = "4" -> 52 [] c = "B" -> 66
      [] c = "a" -> 97 [] c = "b" -> 98 [] c = "c" -> 99 [] c = "d" -> 100
      [] c = "e" -> 101 [] c = "f" -> 102 [] c = "g" -> 103 [] c = "h" -> 104
      [] c = "i" -> 105 [] c = "l" -> 108 [] c = "m" -> 109 [] c = "n" -> 110
      [] c = "o" -> 111 [] c = "p" -> 112 [] c = "r" -> 114 [] c = "s" -> 115
      [] c = "t" -> 116 [] c = "u" -> 117 [] c = "x" -> 120

RECURSIVE CharsLess(_, _)
\* str.__lt__: lexicographic by code point, a proper prefix first
CharsLess(x, y) ==
    IF y = <<>> THEN FALSE
    ELSE IF x = <<>> THEN TRUE
    ELSE IF Ord(Head(x)) # Ord(Head(y)) THEN Ord(Head(x)) < Ord(Head(y))
    ELSE CharsLess(Tail(x), Tail(y))

StrLess(a, b) == CharsLess(Chars(a), Chars(b))

RECURSIVE Insert(_, _)
Insert(x, sorted) ==
    IF sorted = <<>> THEN <<x>>
    ELSE IF StrLess(x, Head(sorted)) THEN <<x>> \o sorted
    ELSE <<Head(sorted)>> \o Insert(x, Tail(sorted))

RECURSIVE PySorted(_)
\* sorted(iterable) of strings
PySorted(xs) == IF xs = <<>> THEN <<>> ELSE Insert(Head(xs), PySorted(Tail(xs)))

RECURSIVE LStrip(_, _)
\* str.lstrip(c)
LStrip(cs, c) == IF cs # <<>> /\ Head(cs) = c THEN LStrip(Tail(cs), c) ELSE cs

\* str.replace(old, new) for one-character old and new
Replace(cs, old, new) == [k \in 1..Len(cs) |-> IF cs[k] = old THEN new ELSE cs[k]]

Digit(c) == CASE c = "2" -> 2 [] c = "4" -> 4 [] OTHER -> -1

RECURSIVE DigitsValue(_, _)
DigitsValue(cs, acc) ==
    IF cs = <<>> THEN acc
    ELSE IF Digit(Head(cs)) < 0 THEN -1
    ELSE DigitsValue(Tail(cs), 10 * acc + Digit(Head(cs)))

\* int(s): the value, or a ValueError (ok = FALSE)
PyInt(s) ==
    LET cs == Chars(s)
        neg == cs # <<>> /\ Head(cs) = "-"
        ds == IF cs # <<>> /\ Head(cs) \in {"-", "+"} THEN Tail(cs) ELSE cs
        n == IF ds = <<>> THEN -1 ELSE DigitsValue(ds, 0)
    IN  IF n < 0 THEN [ok |-> FALSE, value |-> 0]
        ELSE [ok |-> TRUE, value |-> IF neg THEN 0 - n ELSE n]

-----------------------------------------------------------------------------
(* Python dicts: the items in insertion order.  Assigning to a key that is *)
(* present replaces its value in place; a new key goes to the end.         *)

DictKeys(d) == [k \in 1..Len(d) |-> d[k].key]

DictHas(d, key) == \E k \in 1..Len(d) : d[k].key = key

DictGet(d, key) == d[CHOOSE k \in 1..Len(d) : d[k].key = key].value

DictSet(d, key, value) ==
    IF DictHas(d, key)
    THEN [k \in 1..Len(d) |-> IF d[k].key = key THEN [key |-> key, value |-> value] ELSE d[k]]
    ELSE Append(d, [key |-> key, value |-> value])

-----------------------------------------------------------------------------
(* The command modules: what each passes to cli_command and the function   *)
(* it decorates.  "arguments" is Optional: <<>> is None, <<list>> a list.  *)

hello_world_module ==
    [name |-> "hello", help |-> "Prints a hello world message.",
     arguments |-> <<>>, func |-> "hello_world"]

\* (the help text without the backquotes it has around greet Bob 42)
greet_with_positional_module ==
    [name |-> "greet", help |-> "Greets a {person} with their {age}. (USAGE: greet Bob 42)",
     arguments |-> << <<
        [name |-> "person", kwargs |-> [help |-> "Person's name", type |-> "str"]],
        [name |-> "age", kwargs |-> [help |-> "Age in years", type |-> "int"]] >> >>,
     func |-> "greet_with_positional"]

greet_with_flags_module ==
    [name |-> "greet-flags", help |-> "Greets a person using flags for name and age.",
     arguments |-> << <<
        [flags |-> <<"-p", "--person">>,
         kwargs |-> [help |-> "Person's name", type |-> "str", required |-> TRUE]],
        [flags |-> <<"-a", "--age">>,
         kwargs |-> [help |-> "Age in years", type |-> "int", required |-> TRUE]],
        [flags |-> <<"-e", "--excited">>,
         kwargs |-> [help |-> "Make it all caps", action |-> "store_true"]] >> >>,
     func |-> "greet_with_flags"]

\* A command module written against the decorator's interface that is not
\* one of the shipped three: it registers under a name already taken, with
\* its own argument list and a handler of its own.
override_module ==
    [name |-> "greet", help |-> "Greets a {person}.",
     arguments |-> << <<
        [name |-> "person", kwargs |-> [help |-> "Person's name", type |-> "str"]] >> >>,
     func |-> "custom_handler"]

\* A command module whose argument list holds a spec with neither "flags"
\* nor "name": the decorator accepts it unchecked.
malformed_module ==
    [name |-> "nope", help |-> "A spec with no name.",
     arguments |-> << << [kwargs |-> [help |-> "Person's name", type |-> "str"]] >> >>,
     func |-> "custom_handler"]

Module(m) ==
    CASE m = "hello_world" -> hello_world_module
      [] m = "greet_with_positional" -> greet_with_positional_module
      [] m = "greet_with_flags" -> greet_with_flags_module
      [] m = "override" -> override_module
      [] m = "malformed" -> malformed_module

\* the command modules under commands/
ShippedModules == {"hello_world", "greet_with_positional", "greet_with_flags"}
\* command modules of any kind the decorator takes
AnyModules == ShippedModules \cup {"override", "malformed"}

\* cli_command that keeps the first registration under a name (setdefault)
cli_command_setdefault(reg, name, help, arguments, func) ==
    IF DictHas(reg, name) THEN reg
    ELSE DictSet(reg, name,
                 [func |-> func, help |-> help,
                  arguments |-> IF arguments = <<>> THEN <<>> ELSE arguments[1]])

\* cli_command(name=, help=, arguments=)(func): the registry after it
cli_command(reg, name, help, arguments, func) ==
    DictSet(reg, name,
            [func |-> func, help |-> help,
             arguments |-> IF arguments = <<>> THEN <<>> ELSE arguments[1]])

-----------------------------------------------------------------------------
(* argparse: building a parser.  A parser is its actions in the order they *)
(* were added and its set_defaults; an action is what add_argument stores. *)

SUPPRESS == "==SUPPRESS=="

NoParser == [actions |-> <<>>, defaults |-> <<>>]

\* the -h/--help action every ArgumentParser adds to itself (add_help=True)
HelpAction ==
    [option_strings |-> <<"-h", "--help">>, dest |-> SUPPRESS, nargs |-> "0",
     type |-> "none", required |-> FALSE, kind |-> "help", suppress_default |-> TRUE,
     default |-> VNone, choices |-> <<>>]

\* argparse.ArgumentParser(...)
ArgumentParser == [actions |-> <<HelpAction>>, defaults |-> <<>>]

\* {}: keyword arguments with no key
EmptyKwargs == [k \in {} |-> k]

\* kwargs.get(key, default)
KwGet(kwargs, key, default) == IF key \in DOMAIN kwargs THEN kwargs[key] ELSE default

\* _get_optional_kwargs: the dest of an option is its first long option
\* string, else its first option string, stripped of "-" and with "-" as "_"
OptionDest(flags) ==
    LET long == SelectSeq(flags, LAMBDA f : Len(Chars(f)) > 1 /\ Chars(f)[2] = "-")
        pick == IF long # <<>> THEN long[1] ELSE flags[1]
    IN  FromChars(Replace(LStrip(Chars(pick), "-"), "-", "_"))

\* ArgumentParser.add_argument(*names, **kwargs): the parser with the action
\* added, or the exception add_argument raises
add_argument(p, names, kwargs) ==
    LET positional == names = <<>> \/ (Len(names) = 1 /\ Chars(names[1])[1] # "-")
        kind == KwGet(kwargs, "action", "store")
        made ==
            [option_strings |-> IF positional THEN <<>> ELSE names,
             dest |-> IF positional THEN names[1] ELSE OptionDest(names),
             nargs |-> IF kind = "store_true" THEN "0" ELSE "None",
             type |-> KwGet(kwargs, "type", "none"),
             required |-> IF positional THEN TRUE ELSE KwGet(kwargs, "required", FALSE),
             kind |-> kind, suppress_default |-> FALSE,
             default |-> IF kind = "store_true" THEN VBool(FALSE) ELSE VNone,
             choices |-> <<>>]
    IN  IF positional /\ "required" \in DOMAIN kwargs
        THEN [ok |-> FALSE, exc |-> "TypeError", parser |-> p]
        ELSE IF ~positional /\ \E k \in 1..Len(names) : Chars(names[k])[1] # "-"
        THEN [ok |-> FALSE, exc |-> "ValueError", parser |-> p]
        ELSE [ok |-> TRUE, exc |-> "",
              parser |-> [p EXCEPT !.actions = Append(@, made)]]

RECURSIVE AddArgumentsReversed(_, _)
\* AddArguments walking args_list from its end (reversed(args_list))
AddArgumentsReversed(p, args_list) ==
    IF args_list = <<>> THEN [ok |-> TRUE, exc |-> "", parser |-> p]
    ELSE LET arg == args_list[Len(args_list)]
             kwargs == KwGet(arg, "kwargs", EmptyKwargs)
             added ==
                IF "flags" \in DOMAIN arg THEN add_argument(p, arg.flags, kwargs)
                ELSE IF "name" \in DOMAIN arg THEN add_argument(p, <<arg.name>>, kwargs)
                ELSE [ok |-> FALSE, exc |-> "KeyError", parser |-> p]
         IN  IF added.ok
             THEN AddArgumentsReversed(added.parser, SubSeq(args_list, 1, Len(args_list) - 1))
             ELSE added

RECURSIVE AddArguments(_, _)
\* lines 57-61: one add_argument per spec of args_list, in list order; a
\* spec without "flags" is added under arg["name"] (a KeyError without it)
AddArguments(p, args_list) ==
    IF args_list = <<>> THEN [ok |-> TRUE, exc |-> "", parser |-> p]
    ELSE LET arg == Head(args_list)
             kwargs == KwGet(arg, "kwargs", EmptyKwargs)
             added ==
                IF "flags" \in DOMAIN arg THEN add_argument(p, arg.flags, kwargs)
                ELSE IF "name" \in DOMAIN arg THEN add_argument(p, <<arg.name>>, kwargs)
                ELSE [ok |-> FALSE, exc |-> "KeyError", parser |-> p]
         IN  IF added.ok THEN AddArguments(added.parser, Tail(args_list)) ELSE added

\* p.set_defaults(func=f)
set_defaults(p, f) == [p EXCEPT !.defaults = DictSet(@, "func", VFunc(f))]

\* sub.add_parser(name, help=...): a conflict with a name already taken is an
\* ArgumentError (CPython 3.11)
add_parser(choices, name) ==
    IF DictHas(choices, name)
    THEN [ok |-> FALSE, exc |-> "ArgumentError", parser |-> NoParser]
    ELSE [ok |-> TRUE, exc |-> "", parser |-> ArgumentParser]

RECURSIVE AddCommandsLateBound(_, _)
\* AddCommands with func bound late: every sub-parser gets the function of
\* the last registry item
AddCommandsLateBound(choices, items) ==
    IF items = <<>> THEN [ok |-> TRUE, exc |-> "", choices |-> choices]
    ELSE LET cmd_name == Head(items).key
             meta == Head(items).value
             p == add_parser(choices, cmd_name)
             withArgs == AddArguments(p.parser, meta.arguments)
         IN  IF ~p.ok THEN [ok |-> FALSE, exc |-> p.exc, choices |-> choices]
             ELSE IF ~withArgs.ok THEN [ok |-> FALSE, exc |-> withArgs.exc, choices |-> choices]
             ELSE AddCommandsLateBound(
                    DictSet(choices, cmd_name,
                            set_defaults(withArgs.parser, items[Len(items)].value.func)),
                    Tail(items))

RECURSIVE AddCommands(_, _)
\* lines 54-62: a sub-parser per registry item, in the registry's order
AddCommands(choices, items) ==
    IF items = <<>> THEN [ok |-> TRUE, exc |-> "", choices |-> choices]
    ELSE LET cmd_name == Head(items).key
             meta == Head(items).value
             p == add_parser(choices, cmd_name)
             withArgs == AddArguments(p.parser, meta.arguments)
         IN  IF ~p.ok THEN [ok |-> FALSE, exc |-> p.exc, choices |-> choices]
             ELSE IF ~withArgs.ok THEN [ok |-> FALSE, exc |-> withArgs.exc, choices |-> choices]
             ELSE AddCommands(
                    DictSet(choices, cmd_name, set_defaults(withArgs.parser, meta.func)),
                    Tail(items))

\* the action add_subparsers(dest="command", required=True) adds
SubParsersAction(choices) ==
    [option_strings |-> <<>>, dest |-> "command", nargs |-> "PARSER",
     type |-> "none", required |-> TRUE, kind |-> "parsers", suppress_default |-> FALSE,
     default |-> VNone, choices |-> choices]

\* build_parser(): the parser, or the exception that leaves build_parser
build_parser(reg) ==
    LET p_status == set_defaults(ArgumentParser, "cmd_status")
        builtins == DictSet(<<>>, "status", p_status)
        all == AddCommands(builtins, reg)
    IN  IF all.ok
        THEN [ok |-> TRUE, exc |-> "",
              parser |-> [ArgumentParser EXCEPT !.actions = Append(@, SubParsersAction(all.choices))]]
        ELSE [ok |-> FALSE, exc |-> all.exc, parser |-> NoParser]

-----------------------------------------------------------------------------
(* argparse: parsing.  Positions in an argument list are 1-based here.     *)

\* str.startswith
StartsWith(cs, prefix) ==
    /\ Len(prefix) <= Len(cs)
    /\ \A k \in 1..Len(prefix) : cs[k] = prefix[k]

\* _negative_number_matcher: '^-\d+$' (the pool has no decimal point)
IsNegativeNumber(cs) ==
    /\ Len(cs) > 1
    /\ cs[1] = "-"
    /\ \A k \in 2..Len(cs) : Digit(cs[k]) >= 0

\* the indices of p's actions answering to option string o
ActionsOf(p, o) ==
    {a \in 1..Len(p.actions) :
        \E k \in 1..Len(p.actions[a].option_strings) : p.actions[a].option_strings[k] = o}

\* _get_option_tuples: the option strings of p that arg_string abbreviates
\* (an argument list holds no "=" and no value glued to a short option)
OptionTuples(p, arg_string) ==
    {o \in UNION {{p.actions[a].option_strings[k] : k \in 1..Len(p.actions[a].option_strings)} :
                    a \in 1..Len(p.actions)} :
        StartsWith(Chars(o), Chars(arg_string))}

\* _parse_optional: "A" for an argument, "O" with the action (0: no such
\* option in this parser) for an option string, or an ambiguity error
parse_optional(p, arg_string) ==
    LET cs == Chars(arg_string)
        abbreviated == OptionTuples(p, arg_string)
    IN  IF cs = <<>> \/ cs[1] # "-" THEN [pat |-> "A", action |-> 0]
        ELSE IF ActionsOf(p, arg_string) # {}
        THEN [pat |-> "O", action |-> CHOOSE a \in ActionsOf(p, arg_string) : TRUE]
        ELSE IF Len(cs) = 1 THEN [pat |-> "A", action |-> 0]
        ELSE IF Cardinality(abbreviated) > 1 THEN [pat |-> "ambiguous", action |-> 0]
        ELSE IF Cardinality(abbreviated) = 1
        THEN [pat |-> "O",
              action |-> CHOOSE a \in ActionsOf(p, CHOOSE o \in abbreviated : TRUE) : TRUE]
        ELSE IF IsNegativeNumber(cs) THEN [pat |-> "A", action |-> 0]
        ELSE [pat |-> "O", action |-> 0]

\* _get_value with the declared type not applied: the string as it is
get_value_untyped(action, arg_string) == [ok |-> TRUE, value |-> VStr(arg_string)]

\* _get_value: the type conversion of one argument string
get_value(action, arg_string) ==
    IF action.type = "int"
    THEN LET n == PyInt(arg_string)
         IN  [ok |-> n.ok, value |-> VInt(n.value)]
    ELSE [ok |-> TRUE, value |-> VStr(arg_string)]

\* how many of the positionals still to fill match the start of the pattern
\* (_match_arguments_partial): a one-value positional takes one "A", the
\* sub-command positional one "A" and everything after it
RECURSIVE MatchCounts(_, _, _)
MatchCounts(p, positionals, pattern) ==
    IF positionals = <<>> \/ pattern = <<>> \/ Head(pattern) # "A" THEN <<>>
    ELSE IF p.actions[Head(positionals)].nargs = "PARSER" THEN <<Len(pattern)>>
    ELSE <<1>> \o MatchCounts(p, Tail(positionals), Tail(pattern))

\* the namespace parse_known_args starts from: the defaults of the actions,
\* then the parser's set_defaults
RECURSIVE ActionDefaults(_, _)
ActionDefaults(actions, ns) ==
    IF actions = <<>> THEN ns
    ELSE LET a == Head(actions)
         IN  ActionDefaults(Tail(actions),
                IF a.dest # SUPPRESS /\ ~a.suppress_default /\ ~DictHas(ns, a.dest)
                THEN DictSet(ns, a.dest, a.default) ELSE ns)

RECURSIVE ParserDefaults(_, _)
ParserDefaults(defaults, ns) ==
    IF defaults = <<>> THEN ns
    ELSE ParserDefaults(Tail(defaults),
            IF DictHas(ns, Head(defaults).key) THEN ns
            ELSE DictSet(ns, Head(defaults).key, Head(defaults).value))

RECURSIVE Update(_, _)
\* setattr(namespace, key, value) for every item of the other namespace
Update(ns, items) ==
    IF items = <<>> THEN ns
    ELSE Update(DictSet(ns, Head(items).key, Head(items).value), Tail(items))

SubSeqFrom(seq, from) == SubSeq(seq, from, Len(seq))

Fail(st, msg) == [st EXCEPT !.status = "error", !.msg = msg]

\* take_action: convert the argument strings and run the action.  The
\* sub-command action checks the name against its choices and hands the rest
\* to that sub-parser: the state stops at status "sub" for parse_known_args
\* to run the sub-parser and resume.
take_action(p, st, a, argument_strings) ==
    LET action == p.actions[a]
        seen == [st EXCEPT !.seen = @ \cup {a}]
    IN  CASE action.kind = "help" -> [seen EXCEPT !.status = "help"]
          [] action.kind = "store_true" ->
                [seen EXCEPT !.ns = DictSet(@, action.dest, VBool(TRUE))]
          [] action.kind = "store" ->
                LET v == get_value(action, argument_strings[1])
                IN  IF v.ok THEN [seen EXCEPT !.ns = DictSet(@, action.dest, v.value)]
                    ELSE Fail(seen, "invalid value")
          [] action.kind = "parsers" ->
                LET parser_name == argument_strings[1]
                IN  IF ~DictHas(action.choices, parser_name)
                    THEN Fail(seen, "invalid choice")
                    ELSE [seen EXCEPT !.status = "sub",
                                      !.ns = DictSet(@, action.dest, VStr(parser_name)),
                                      !.sub = [parser |-> DictGet(action.choices, parser_name),
                                               arg_strings |-> Tail(argument_strings)]]

RECURSIVE TakeActions(_, _, _, _, _)
\* consume_positionals: fill the positionals the pattern at st.i matches
TakeActions(p, st, counts, arg_strings, k) ==
    IF k > Len(counts) \/ st.status # "ok" THEN st
    ELSE LET taken == take_action(p, st, st.positionals[1],
                                  SubSeq(arg_strings, st.i, st.i + counts[k] - 1))
         IN  TakeActions(p,
                [taken EXCEPT !.i = st.i + counts[k], !.positionals = Tail(st.positionals)],
                counts, arg_strings, k + 1)

consume_positionals(p, st, arg_strings, pattern) ==
    TakeActions(p, st, MatchCounts(p, st.positionals, SubSeqFrom(pattern, st.i)),
                arg_strings, 1)

\* consume_optional: the option string at st.i and the arguments it takes
consume_optional(p, st, arg_strings, parsed) ==
    LET a == parsed[st.i].action
        nargs == IF p.actions[a].nargs = "0" THEN 0 ELSE 1
    IN  IF a = 0
        THEN [st EXCEPT !.extras = Append(@, arg_strings[st.i]), !.i = st.i + 1]
        ELSE IF nargs = 1 /\ (st.i + 1 > Len(parsed) \/ parsed[st.i + 1].pat # "A")
        THEN Fail(st, "expected one argument")
        ELSE [take_action(p, st, a, SubSeq(arg_strings, st.i + 1, st.i + nargs))
                EXCEPT !.i = st.i + 1 + nargs]

\* the arguments before the next option string that no positional took go
\* to the extras
SkipToOption(st, arg_strings, next_option_string_index) ==
    [st EXCEPT !.extras = @ \o SubSeq(arg_strings, st.i, next_option_string_index - 1),
               !.i = next_option_string_index]

\* after the loop: the arguments left over are extras, and a required action
\* that was not seen is an error
Finish(p, last, arg_strings) ==
    IF last.status # "ok" THEN last
    ELSE IF \E a \in 1..Len(p.actions) : a \notin last.seen /\ p.actions[a].required
    THEN Fail(last, "required")
    ELSE [last EXCEPT !.extras = @ \o SubSeqFrom(arg_strings, last.i)]

RECURSIVE ParseLoop(_, _, _, _)
RECURSIVE AfterPositionals(_, _, _, _, _, _)

\* the loop of _parse_known_args and what follows it: positionals up to the
\* next option string, then that option, until no option string is left
ParseLoop(p, st, arg_strings, parsed) ==
    LET after == {k \in st.i..Len(parsed) : parsed[k].pat = "O"}
        next_option_string_index == CHOOSE k \in after : \A j \in after : k <= j
        positioned == consume_positionals(p, st, arg_strings,
                                          [k \in 1..Len(parsed) |-> parsed[k].pat])
    IN  IF st.status # "ok" THEN st
        ELSE IF after = {} THEN Finish(p, positioned, arg_strings)
        ELSE AfterPositionals(p, st.i, arg_strings, parsed, next_option_string_index,
                              IF st.i # next_option_string_index THEN positioned ELSE st)

AfterPositionals(p, start_index, arg_strings, parsed, next_option_string_index, st) ==
    IF st.status # "ok" THEN st
    ELSE IF st.i > start_index THEN ParseLoop(p, st, arg_strings, parsed)
    ELSE ParseLoop(p,
            consume_optional(p,
                IF parsed[st.i].pat # "O"
                THEN SkipToOption(st, arg_strings, next_option_string_index) ELSE st,
                arg_strings, parsed),
            arg_strings, parsed)

\* the option strings and arguments of an argument list, as p reads them
Parsed(p, arg_strings) ==
    [k \in 1..Len(arg_strings) |-> parse_optional(p, arg_strings[k])]

\* the state _parse_known_args starts from: nothing consumed, the namespace
\* holding the defaults
Start(p) ==
    [i |-> 1,
     positionals |->
        SelectSeq([k \in 1..Len(p.actions) |-> k],
                  LAMBDA k : p.actions[k].option_strings = <<>>),
     ns |-> ParserDefaults(p.defaults, ActionDefaults(p.actions, <<>>)),
     seen |-> {}, extras |-> <<>>, unrecognized |-> <<>>,
     status |-> "ok", msg |-> "", sub |-> [parser |-> NoParser, arg_strings |-> <<>>]]

Ambiguous(st, parsed) ==
    IF \E k \in 1..Len(parsed) : parsed[k].pat = "ambiguous"
    THEN Fail(st, "ambiguous option") ELSE st

\* _parse_known_args of p up to the end, an error, a help request, or the
\* hand-over to a sub-parser
RunParser(p, arg_strings) ==
    ParseLoop(p, Ambiguous(Start(p), Parsed(p, arg_strings)), arg_strings,
              Parsed(p, arg_strings))

Result(st) ==
    [status |-> st.status, msg |-> st.msg, ns |-> st.ns,
     extras |-> st.extras \o st.unrecognized]

\* the sub-command action once its sub-parser is done: the sub-parser's
\* namespace is copied into the parser's, its extras are kept as unrecognized
AfterSubParser(top, sub) ==
    IF sub.status # "ok" THEN [top EXCEPT !.status = sub.status, !.msg = sub.msg]
    ELSE [top EXCEPT !.status = "ok", !.ns = Update(@, sub.ns),
                     !.unrecognized = @ \o sub.extras]

\* one parser at work: the parser, its argument list, and how far it is
Frame(p, arg_strings) ==
    [p |-> p, arg_strings |-> arg_strings,
     st |-> Ambiguous(Start(p), Parsed(p, arg_strings))]

RECURSIVE Drive(_)
RECURSIVE Driven(_, _)

\* run the innermost parser at work as far as it gets
Drive(stack) ==
    Driven(stack,
           ParseLoop(stack[Len(stack)].p, stack[Len(stack)].st, stack[Len(stack)].arg_strings,
                     Parsed(stack[Len(stack)].p, stack[Len(stack)].arg_strings)))

\* the innermost parser got to r: a sub-command starts its sub-parser, the
\* end of a sub-parser resumes the parser that called it, and the end of the
\* outermost parser is the result
Driven(stack, r) ==
    IF r.status = "sub"
    THEN Drive(Append([stack EXCEPT ![Len(stack)].st = r],
                      Frame(r.sub.parser, r.sub.arg_strings)))
    ELSE IF Len(stack) = 1 THEN Result(r)
    ELSE Drive([SubSeq(stack, 1, Len(stack) - 1) EXCEPT
                    ![Len(stack) - 1].st = AfterSubParser(@, Result(r))])

\* ArgumentParser.parse_known_args: status "ok" with the namespace and the
\* extras, "error" (self.error: usage on stderr, SystemExit(2)) or "help"
\* (print_help, SystemExit(0))
parse_known_args(p, arg_strings) == Drive(<<Frame(p, arg_strings)>>)

\* ArgumentParser.parse_args: extras left over are an error
NoExtras(r) ==
    IF r.status = "ok" /\ r.extras # <<>>
    THEN [r EXCEPT !.status = "error", !.msg = "unrecognized arguments"]
    ELSE r

parse_args(p, arg_strings) == NoExtras(parse_known_args(p, arg_strings))

-----------------------------------------------------------------------------
(* The argument lists main is called with.                                 *)

\* what the first argument is drawn from: the command names, a name that
\* is no command, and the help option
FirstTokens == {"status", "hello", "greet", "greet-flags", "nope", "-h"}

\* what the later arguments are drawn from
RestTokens == {"Bob", "42", "-p", "-a", "-e"}

RECURSIVE SeqsUpTo(_, _)
SeqsUpTo(S, n) ==
    IF n = 0 THEN {<<>>}
    ELSE LET shorter == SeqsUpTo(S, n - 1)
         IN  shorter \cup {Append(q, x) : q \in {r \in shorter : Len(r) = n - 1}, x \in S}

ArgvSet(n) ==
    {<<>>} \cup {<<f>> \o r : f \in FirstTokens, r \in SeqsUpTo(RestTokens, n - 1)}

-----------------------------------------------------------------------------
(* Exceptions: a class and its bases, most derived first.                  *)

Mro(exc) ==
    CASE exc = "KeyboardInterrupt" -> <<"KeyboardInterrupt", "BaseException">>
      [] exc = "SystemExit" -> <<"SystemExit", "BaseException">>
      [] exc = "OSError" -> <<"OSError", "Exception", "BaseException">>
      [] exc = "AttributeError" -> <<"AttributeError", "Exception", "BaseException">>
      [] exc = "RuntimeError" -> <<"RuntimeError", "Exception", "BaseException">>
      [] exc = "KeyError" -> <<"KeyError", "LookupError", "Exception", "BaseException">>
      [] exc = "TypeError" -> <<"TypeError", "Exception", "BaseException">>
      [] exc = "ValueError" -> <<"ValueError", "Exception", "BaseException">>
      [] exc = "ArgumentError" -> <<"ArgumentError", "Exception", "BaseException">>

\* does "except cls" catch exc
IsInstance(exc, cls) == \E k \in 1..Len(Mro(exc)) : Mro(exc)[k] = cls

-----------------------------------------------------------------------------
(* The handlers.  Each yields the ways a call of it can end: the value     *)
(* returned or the exception raised, the lines printed, and the registry   *)
(* it leaves behind.                                                       *)

Returns(value, out, reg) ==
    [kind |-> "return", value |-> value, exc |-> "", out |-> out, reg |-> reg]

Raises(exc, reg) ==
    [kind |-> "raise", value |-> VNone, exc |-> exc, out |-> <<>>, reg |-> reg]

\* what can cut a handler short from outside: Ctrl-C while it runs, and a
\* print to a stream that is closed
Environment(reg) == {Raises("KeyboardInterrupt", reg), Raises("OSError", reg)}

\* the static metadata of internals.config
APP_NAME == "APP_NAME"
APP_VERSION == "APP_VERSION"
DISPLAY_NAME == "DISPLAY_NAME"
DESCRIPTION == "DESCRIPTION"

\* cmd_status listing the registry's keys as they come, not sorted
cmd_status_unsorted(ns, reg) ==
    LET status == <<
            [key |-> "APP_NAME", value |-> <<APP_NAME>>],
            [key |-> "APP_VERSION", value |-> <<APP_VERSION>>],
            [key |-> "DISPLAY_NAME", value |-> <<DISPLAY_NAME>>],
            [key |-> "DESCRIPTION", value |-> <<DESCRIPTION>>],
            [key |-> "COMMAND_REGISTRY", value |-> DictKeys(reg)] >>
    IN  {Returns(VInt(0), <<[json |-> status]>>, reg)} \cup Environment(reg)

\* cmd_status: the JSON object printed, as its members in order
cmd_status(ns, reg) ==
    LET status == <<
            [key |-> "APP_NAME", value |-> <<APP_NAME>>],
            [key |-> "APP_VERSION", value |-> <<APP_VERSION>>],
            [key |-> "DISPLAY_NAME", value |-> <<DISPLAY_NAME>>],
            [key |-> "DESCRIPTION", value |-> <<DESCRIPTION>>],
            [key |-> "COMMAND_REGISTRY", value |-> PySorted(DictKeys(reg))] >>
    IN  {Returns(VInt(0), <<[json |-> status]>>, reg)} \cup Environment(reg)

\* hello_world unregistering every command as it runs (COMMAND_REGISTRY.clear())
hello_world_clears(ns, reg) ==
    {Returns(VInt(0), <<[text |-> "Hello World!!!"]>>, <<>>)} \cup Environment(<<>>)

hello_world(ns, reg) ==
    {Returns(VInt(0), <<[text |-> "Hello World!!!"]>>, reg)} \cup Environment(reg)

Greeting(person, age, upper) ==
    [text |-> "Hello, {}! You are {} years old!!!", person |-> person, age |-> age,
     upper |-> upper]

greet_with_positional(ns, reg) ==
    IF ~DictHas(ns, "person") \/ ~DictHas(ns, "age") THEN {Raises("AttributeError", reg)}
    ELSE {Returns(VInt(0), <<Greeting(DictGet(ns, "person"), DictGet(ns, "age"), FALSE)>>, reg)}
         \cup Environment(reg)

greet_with_flags(ns, reg) ==
    IF ~DictHas(ns, "person") \/ ~DictHas(ns, "age") \/ ~DictHas(ns, "excited")
    THEN {Raises("AttributeError", reg)}
    ELSE {Returns(VInt(0),
                  <<Greeting(DictGet(ns, "person"), DictGet(ns, "age"),
                             DictGet(ns, "excited") = VBool(TRUE))>>, reg)}
         \cup Environment(reg)

\* A handler of a command module that is not one of the shipped three: any
\* callable taking the namespace.  It may return an exit code, return
\* nothing, raise, or call sys.exit(3).
custom_handler(ns, reg) ==
    {Returns(VInt(0), <<>>, reg), Returns(VInt(3), <<>>, reg), Returns(VNone, <<>>, reg),
     Raises("RuntimeError", reg), Raises("KeyboardInterrupt", reg),
     [Raises("SystemExit", reg) EXCEPT !.value = VInt(3)]}

\* func(ns) for the function a namespace carries
Call(func, ns, reg) ==
    CASE func = "cmd_status" -> cmd_status(ns, reg)
      [] func = "hello_world" -> hello_world(ns, reg)
      [] func = "greet_with_positional" -> greet_with_positional(ns, reg)
      [] func = "greet_with_flags" -> greet_with_flags(ns, reg)
      [] func = "custom_handler" -> custom_handler(ns, reg)

-----------------------------------------------------------------------------
(* The process.                                                            *)

NoReturn == [kind |-> "none", value |-> VNone, exc |-> ""]
Returned(value) == [kind |-> "return", value |-> value, exc |-> ""]
\* an exception leaving main; for SystemExit, value is its code
Raised(exc, value) == [kind |-> "raise", value |-> value, exc |-> exc]

Init ==
    /\ pc = "import"
    /\ imported = {}
    /\ registry = <<>>
    /\ regLog = <<>>
    /\ argv = <<>>
    /\ parser = NoParser
    /\ args = <<>>
    /\ called = <<>>
    /\ stdout = <<>>
    /\ stderr = <<>>
    /\ logs = <<>>
    /\ ret = NoReturn

\* cli.py line 15, "import commands": the body of one more command module
\* of the package runs, once, and its decorator registers the command
ImportModule(m) ==
    /\ pc = "import"
    /\ m \notin imported
    /\ imported' = imported \cup {m}
    /\ registry' = cli_command(registry, Module(m).name, Module(m).help,
                               Module(m).arguments, Module(m).func)
    /\ regLog' = Append(regLog, Module(m))
    /\ UNCHANGED <<pc, argv, parser, args, called, stdout, stderr, logs, ret>>

\* a command module of any kind applies the decorator, any number of times
Decorate(m) ==
    /\ pc = "import"
    /\ Len(regLog) < MaxRegs
    /\ imported' = imported \cup {m}
    /\ registry' = cli_command(registry, Module(m).name, Module(m).help,
                               Module(m).arguments, Module(m).func)
    /\ regLog' = Append(regLog, Module(m))
    /\ UNCHANGED <<pc, argv, parser, args, called, stdout, stderr, logs, ret>>

\* lines 67-68: main is called, after the imports at the top of cli.py
Main(package) ==
    /\ pc = "import"
    /\ package \subseteq imported
    /\ pc' = "build_parser"
    /\ UNCHANGED <<imported, registry, regLog, argv, parser, args, called, stdout, stderr, logs, ret>>

\* line 69: parser = build_parser()
BuildParser ==
    /\ pc = "build_parser"
    /\ LET built == build_parser(registry)
       IN  IF built.ok
           THEN /\ parser' = built.parser
                /\ pc' = "parse_args"
                /\ ret' = ret
           ELSE /\ parser' = parser
                /\ pc' = "done"
                /\ ret' = Raised(built.exc, VNone)
    /\ UNCHANGED <<imported, registry, regLog, argv, args, called, stdout, stderr, logs>>

\* main going back to build the parser anew after a usage error, instead of
\* letting the exit end the run
AfterParseArgs_retry(r) ==
    CASE r.status = "ok" ->
            /\ args' = r.ns
            /\ pc' = "dispatch"
            /\ UNCHANGED <<ret, stderr, stdout>>
      [] r.status = "error" ->
            /\ pc' = "build_parser"
            /\ UNCHANGED <<args, ret, stderr, stdout>>
      [] r.status = "help" ->
            /\ pc' = "done"
            /\ ret' = Raised("SystemExit", VInt(0))
            /\ stdout' = Append(stdout, [help |-> TRUE])
            /\ UNCHANGED <<args, stderr>>

\* line 70: how main goes on after parse_args ended as r: a usage error
\* leaves main as SystemExit(2), a help request as SystemExit(0)
AfterParseArgs(r) ==
    CASE r.status = "ok" ->
            /\ args' = r.ns
            /\ pc' = "dispatch"
            /\ UNCHANGED <<ret, stderr, stdout>>
      [] r.status = "error" ->
            /\ pc' = "done"
            /\ ret' = Raised("SystemExit", VInt(2))
            /\ stderr' = Append(stderr, [usage |-> r.msg])
            /\ UNCHANGED <<args, stdout>>
      [] r.status = "help" ->
            /\ pc' = "done"
            /\ ret' = Raised("SystemExit", VInt(0))
            /\ stdout' = Append(stdout, [help |-> TRUE])
            /\ UNCHANGED <<args, stderr>>

\* line 70: args = parser.parse_args(argv), for the argv main was given
ParseArgs(argvs) ==
    /\ pc = "parse_args"
    /\ \E av \in argvs :
            /\ argv' = av
            /\ AfterParseArgs(parse_args(parser, av))
    /\ UNCHANGED <<imported, registry, regLog, parser, called, logs>>

\* main's try with the fault clause first and catching BaseException: an
\* interrupt is taken for a fault
main_try_fault_first(o) ==
    IF o.kind = "return"
    THEN [ret |-> Returned(o.value), logs |-> <<>>, stderr |-> <<>>]
    ELSE [ret |-> Returned(VInt(1)),
          logs |-> <<[level |-> "ERROR", msg |-> "Unhandled error: %s", exc_info |-> o.exc]>>,
          stderr |-> <<[error |-> o.exc]>>]

\* main's try with the fault logged and raised again instead of returned as 1
main_try_reraise(o) ==
    IF o.kind = "return"
    THEN [ret |-> Returned(o.value), logs |-> <<>>, stderr |-> <<>>]
    ELSE IF IsInstance(o.exc, "KeyboardInterrupt")
    THEN [ret |-> Returned(VInt(130)),
          logs |-> <<[level |-> "WARNING", msg |-> "Interrupted by user.", exc_info |-> ""]>>,
          stderr |-> <<>>]
    ELSE [ret |-> Raised(o.exc, o.value),
          logs |-> <<[level |-> "ERROR", msg |-> "Unhandled error: %s", exc_info |-> o.exc]>>,
          stderr |-> <<[error |-> o.exc]>>]

\* lines 71-79: what main makes of the way the handler call ended o: the
\* value returned as it is, KeyboardInterrupt as 130 with a warning logged,
\* an Exception as 1 with the error logged and a line on stderr; anything
\* else leaves main
main_try(o) ==
    IF o.kind = "return"
    THEN [ret |-> Returned(o.value), logs |-> <<>>, stderr |-> <<>>]
    ELSE IF IsInstance(o.exc, "KeyboardInterrupt")
    THEN [ret |-> Returned(VInt(130)),
          logs |-> <<[level |-> "WARNING", msg |-> "Interrupted by user.", exc_info |-> ""]>>,
          stderr |-> <<>>]
    ELSE IF IsInstance(o.exc, "Exception")
    THEN [ret |-> Returned(VInt(1)),
          logs |-> <<[level |-> "ERROR", msg |-> "Unhandled error: %s", exc_info |-> o.exc]>>,
          stderr |-> <<[error |-> o.exc]>>]
    ELSE [ret |-> Raised(o.exc, o.value), logs |-> <<>>, stderr |-> <<>>]

\* lines 71-79: the handler the namespace carries is called, once
Dispatch ==
    /\ pc = "dispatch"
    /\ \E o \in Call(DictGet(args, "func").s, args, registry) :
            /\ called' = Append(called, [func |-> DictGet(args, "func").s, kind |-> o.kind,
                                         value |-> o.value, exc |-> o.exc])
            /\ stdout' = stdout \o o.out
            /\ registry' = o.reg
            /\ ret' = main_try(o).ret
            /\ logs' = logs \o main_try(o).logs
            /\ stderr' = stderr \o main_try(o).stderr
    /\ pc' = "done"
    /\ UNCHANGED <<imported, regLog, argv, parser, args>>

\* the shipped program: the three command modules, then one run of main
Next ==
    \/ \E m \in ShippedModules : ImportModule(m)
    \/ Main(ShippedModules)
    \/ BuildParser
    \/ ParseArgs(ArgvSet(MaxArgv))
    \/ Dispatch

Spec == Init /\ [][Next]_vars

\* the dispatcher over command modules of any kind: registrations in any
\* number and order, then one run of main
NextAny ==
    \/ Main({})
    \/ \E m \in AnyModules : Decorate(m)
    \/ BuildParser
    \/ ParseArgs(ArgvSet(MaxArgvAny))
    \/ Dispatch

SpecAny == Init /\ [][NextAny]_vars

-----------------------------------------------------------------------------
(* What the properties below speak of.                                     *)

\* main is over: it returned, or an exception left it
Done == pc = "done"

\* the arguments after the sub-command
Rest == SubSeqFrom(argv, 2)

\* a decimal literal, the strings int() takes among the tokens
IsDecimal(s) == s # "" /\ \A k \in 1..Len(Chars(s)) : Chars(s)[k] \in {"0", "1", "2", "3", "4", "5", "6", "7", "8", "9"}

\* a string that is an argument, not an option
IsPlain(s) == s # "" /\ Chars(s)[1] # "-"

RECURSIVE FlagUses(_)
\* rest is uses of the options of greet-flags, one after the other
FlagUses(rest) ==
    \/ rest = <<>>
    \/ rest[1] \in {"-e", "--excited"} /\ FlagUses(Tail(rest))
    \/ /\ Len(rest) >= 2
       /\ \/ rest[1] \in {"-p", "--person"} /\ IsPlain(rest[2])
          \/ rest[1] \in {"-a", "--age"} /\ IsDecimal(rest[2])
       /\ FlagUses(SubSeqFrom(rest, 3))

\* the arguments each command of the shipped program is documented to take
ValidArgs(name, rest) ==
    CASE name \in {"status", "hello"} -> rest = <<>>
      [] name = "greet" -> Len(rest) = 2 /\ IsPlain(rest[1]) /\ IsDecimal(rest[2])
      [] name = "greet-flags" ->
            /\ FlagUses(rest)
            /\ \E k \in 1..Len(rest) : rest[k] \in {"-p", "--person"}
            /\ \E k \in 1..Len(rest) : rest[k] \in {"-a", "--age"}
      [] OTHER -> FALSE

\* the function the run is to reach: the built-in's, or the registered one
HandlerOf(name) == IF name = "status" THEN "cmd_status" ELSE DictGet(registry, name).func

\* main was called with a command of the program and arguments valid for it
ValidCall ==
    /\ argv # <<>>
    /\ argv[1] = "status" \/ DictHas(registry, argv[1])
    /\ ValidArgs(argv[1], Rest)

\* C1: for every command of the program - the built-in status and each
\* registered one - a run of main with that command and valid arguments calls
\* exactly the handler registered under that name, once, and when the handler
\* returns an integer main returns that integer.
C1_DispatchToNamedHandler ==
    Done /\ ValidCall =>
        /\ Len(called) = 1
        /\ called[1].func = HandlerOf(argv[1])
        /\ (called[1].kind = "return" /\ called[1].value.t = "int"
                => ret = Returned(called[1].value))

\* greet-flags with both required options reached its handler, which returned 0
C1_Witness ==
    /\ Done
    /\ argv = <<"greet-flags", "-a", "42", "-p", "Bob">>
    /\ called = <<[func |-> "greet_with_flags", kind |-> "return", value |-> VInt(0), exc |-> ""]>>
    /\ ret = Returned(VInt(0))

\* C2: every failure of a run is caught at main's boundary, a failure while
\* the parser is built from a registered argument spec included: no exception
\* leaves main other than the exit the run itself asked for, which carries
\* its exit code.
C2_AllFailuresCaught ==
    Done /\ ret.kind = "raise" => ret.exc = "SystemExit" /\ ret.value.t = "int"

\* main was asked for the top-level help
HelpAsked == argv # <<>> /\ argv[1] \in {"-h", "--help"}

\* the way main ended: parse_args exited with code 2 and no handler ran
ExitsTwoUnhandled == ret = Raised("SystemExit", VInt(2)) /\ called = <<>>

\* C3: when argument parsing fails - the sub-command is missing or unknown, a
\* required argument or flag is missing, or a value cannot be converted to
\* its declared type, in short the arguments are not valid for a command of
\* the program - the run exits with code 2 and no handler is called.
C3_ParseFailureExitsTwo ==
    Done /\ ((~HelpAsked /\ ~ValidCall) \/ \E k \in 1..Len(stderr) : "usage" \in DOMAIN stderr[k])
        => ExitsTwoUnhandled

\* greet was given a word where its age is declared an int
C3_Witness ==
    /\ Done
    /\ argv = <<"greet", "42", "Bob">>
    /\ stderr = <<[usage |-> "invalid value"]>>
    /\ ExitsTwoUnhandled

\* main called one handler, and the call ended with exception exc
HandlerRaised(exc) == Len(called) = 1 /\ called[1].kind = "raise" /\ called[1].exc = exc

\* the fault path of main was taken for exception exc: logged with its
\* traceback, one error line on stderr, 1 returned
FaultPath(exc) ==
    /\ ret = Returned(VInt(1))
    /\ logs = <<[level |-> "ERROR", msg |-> "Unhandled error: %s", exc_info |-> exc]>>
    /\ stderr = <<[error |-> exc]>>

\* C4 as the specification states it: a handler that raises anything but a
\* user interrupt has the fault caught in main, logged, one error line
\* printed, and 1 returned; the fault never leaves main.
C4_AnyFaultCaught ==
    Done => \A exc \in {called[k].exc : k \in 1..Len(called)} \ {"", "KeyboardInterrupt"} :
                HandlerRaised(exc) => FaultPath(exc)

\* C4, amended: a handler that raises an Exception has the fault caught in
\* main, logged, one error line printed, and 1 returned; the fault does not
\* leave main.
C4_ExceptionCaught ==
    Done => \A exc \in {called[k].exc : k \in 1..Len(called)} \ {""} :
                HandlerRaised(exc) /\ IsInstance(exc, "Exception") => FaultPath(exc)

\* a handler of a command module raised RuntimeError and main returned 1
C4_Witness == Done /\ HandlerRaised("RuntimeError") /\ FaultPath("RuntimeError")

\* C5: a handler cut short by a user interrupt has the interrupt caught in
\* main, a warning logged, and 130 returned; nothing of the fault path
\* happens: no error record, no line on stderr, not 1.
C5_InterruptReturns130 ==
    Done /\ HandlerRaised("KeyboardInterrupt") =>
        /\ ret = Returned(VInt(130))
        /\ logs = <<[level |-> "WARNING", msg |-> "Interrupted by user.", exc_info |-> ""]>>
        /\ stderr = <<>>

\* greet was interrupted while it ran
C5_Witness ==
    /\ Done
    /\ argv = <<"greet", "Bob", "42">>
    /\ HandlerRaised("KeyboardInterrupt")
    /\ ret = Returned(VInt(130))

\* the names registered so far
Registered == {regLog[k].name : k \in 1..Len(regLog)}

\* the most recent registration under a name
LastRegistration(name) ==
    LET last == CHOOSE k \in 1..Len(regLog) :
                    /\ regLog[k].name = name
                    /\ \A j \in (k + 1)..Len(regLog) : regLog[j].name # name
    IN  regLog[last]

\* C6: after any sequence of registrations the registry holds one entry per
\* registered name, with the handler, help text and argument list of the most
\* recent registration under that name - so a registration under one name
\* leaves the entries of the other names as they were - and when main
\* dispatches a registered name, the handler called is the one registered last
\* under it.
C6_LastRegistrationWins ==
    /\ {registry[k].key : k \in 1..Len(registry)} = Registered
    /\ Cardinality(Registered) = Len(registry)
    /\ \A name \in Registered :
            /\ DictGet(registry, name).func = LastRegistration(name).func
            /\ DictGet(registry, name).help = LastRegistration(name).help
            /\ DictGet(registry, name).arguments =
                    (IF LastRegistration(name).arguments = <<>> THEN <<>>
                     ELSE LastRegistration(name).arguments[1])
    /\ Done /\ called # <<>> /\ argv[1] \in Registered
            => called[1].func = LastRegistration(argv[1]).func

\* greet was registered twice, and the run reached the handler of the later
\* registration with the arguments the later registration declares
C6_Witness ==
    /\ Done
    /\ \E j, k \in 1..Len(regLog) :
            /\ j < k
            /\ regLog[j] = greet_with_positional_module
            /\ regLog[k] = override_module
    /\ LastRegistration("greet") = override_module
    /\ argv = <<"greet", "Bob">>
    /\ Len(called) = 1 /\ called[1].func = "custom_handler"

\* a list of strings in strictly ascending order: sorted, nothing twice
IsAscending(names) == \A k \in 1..(Len(names) - 1) : StrLess(names[k], names[k + 1])

\* what status printed is the metadata fields and a list of names
StatusOutput(out, names) ==
    /\ Len(out) = 1 /\ DOMAIN out[1] = {"json"}
    /\ [k \in 1..Len(out[1].json) |-> out[1].json[k].key] =
            <<"APP_NAME", "APP_VERSION", "DISPLAY_NAME", "DESCRIPTION", "COMMAND_REGISTRY">>
    /\ out[1].json[1].value = <<APP_NAME>>
    /\ out[1].json[2].value = <<APP_VERSION>>
    /\ out[1].json[3].value = <<DISPLAY_NAME>>
    /\ out[1].json[4].value = <<DESCRIPTION>>
    /\ out[1].json[5].value = names

\* main is about to call the status handler
AtStatus == pc = "dispatch" /\ DictGet(args, "func") = VFunc("cmd_status")

\* C7: the status command, when it runs to its end, prints the metadata
\* fields and the names in the registry - each of them, no other, none
\* twice, in ascending order, whatever the order of registration - main
\* returns 0, and the registry is as it was before.
C7_StatusListsSortedNames ==
    [][AtStatus =>
        /\ registry' = registry
        /\ called'[1].kind = "return" =>
                /\ ret' = Returned(VInt(0))
                /\ \E names \in {stdout'[1].json[5].value} :
                        /\ StatusOutput(stdout', names)
                        /\ {names[k] : k \in 1..Len(names)} = {registry[k].key : k \in 1..Len(registry)}
                        /\ IsAscending(names)]_vars

\* status ran over a registry whose names were registered out of order, one
\* of them twice
C7_Witness ==
    /\ Done
    /\ [k \in 1..Len(regLog) |-> regLog[k].name] = <<"hello", "greet", "hello">>
    /\ DictKeys(registry) = <<"hello", "greet">>
    /\ argv = <<"status">>
    /\ StatusOutput(stdout, <<"greet", "hello">>)
    /\ ret = Returned(VInt(0))

\* the stages of a run, in the order of main's lines
Stage(at) ==
    CASE at = "import" -> 0
      [] at = "build_parser" -> 1
      [] at = "parse_args" -> 2
      [] at = "dispatch" -> 3
      [] at = "done" -> 4

\* the terminal outcomes of a run
ParseFailed == called = <<>> /\ ret = Raised("SystemExit", VInt(2))
HelpShown == called = <<>> /\ ret = Raised("SystemExit", VInt(0))
BuildFailed == called = <<>> /\ ret.kind = "raise" /\ ret.exc # "SystemExit"
Success == Len(called) = 1 /\ called[1].kind = "return" /\ ret = Returned(called[1].value)
Interrupted == Len(called) = 1 /\ called[1].exc = "KeyboardInterrupt" /\ ret = Returned(VInt(130))
Faulted ==
    /\ Len(called) = 1 /\ called[1].kind = "raise"
    /\ IsInstance(called[1].exc, "Exception")
    /\ ret = Returned(VInt(1))
Propagated ==
    /\ Len(called) = 1 /\ called[1].kind = "raise"
    /\ ~IsInstance(called[1].exc, "Exception") /\ ~IsInstance(called[1].exc, "KeyboardInterrupt")
    /\ ret = Raised(called[1].exc, called[1].value)

\* which of the outcomes the state shows
Outcomes ==
    {o \in {"ParseFailed", "HelpShown", "BuildFailed", "Success", "Interrupted", "Faulted",
            "Propagated"} :
        CASE o = "ParseFailed" -> ParseFailed
          [] o = "HelpShown" -> HelpShown
          [] o = "BuildFailed" -> BuildFailed
          [] o = "Success" -> Success
          [] o = "Interrupted" -> Interrupted
          [] o = "Faulted" -> Faulted
          [] o = "Propagated" -> Propagated}

\* every step of main moves to a later stage; before main, steps only import
Forward == Stage(pc') >= Stage(pc) /\ (pc # "import" => Stage(pc') > Stage(pc))

\* C8 as the specification states it: every run of main goes Start ->
\* ParseArgs -> {ParseFailed(2) | Dispatch -> {Success(code) | Interrupted(130)
\* | Faulted(1)}}: one of these four outcomes and no other at its end, none
\* before, at most one handler called, never back to an earlier stage.
C8_LinearPathFourOutcomes ==
    /\ [](/\ Len(called) <= 1
          /\ ~Done => ret = NoReturn
          /\ Done => /\ Cardinality(Outcomes) = 1
                     /\ Outcomes \subseteq {"ParseFailed", "Success", "Interrupted", "Faulted"})
    /\ [][Forward]_vars

\* C8, amended: every run of main goes Start -> BuildParser -> ParseArgs ->
\* Dispatch and ends at the first stage that ends it, in exactly one of
\* BuildFailed (the exception leaves main), ParseFailed(2), HelpShown(0),
\* Success(code), Interrupted(130), Faulted(1), Propagated (a BaseException
\* that is neither an Exception nor an interrupt leaves main); no outcome
\* before the end, at most one handler called, never back to an earlier stage.
C8_LinearPath ==
    /\ [](/\ Len(called) <= 1
          /\ ~Done => ret = NoReturn
          /\ Done => Cardinality(Outcomes) = 1)
    /\ [][Forward]_vars

\* a run that asked for help ended at ParseArgs with exit code 0
C8_Witness == Done /\ argv = <<"-h">> /\ Outcomes = {"HelpShown"} /\ stdout = <<[help |-> TRUE]>>

\* C9: the registry holds every command of the program before build_parser
\* first reads it, and from then until main is over no step - building the
\* parser, parsing, the status handler, any of the three registered handlers -
\* adds, removes or overwrites an entry.
C9_RegistryReadOnly ==
    /\ [](pc # "import" =>
            /\ imported = ShippedModules
            /\ {registry[k].key : k \in 1..Len(registry)} = {"hello", "greet", "greet-flags"})
    /\ [][pc # "import" => registry' = registry]_vars

\* hello ran to its end, and the registry still holds the three commands as
\* greet, hello, greet-flags were registered
C9_Witness ==
    /\ Done
    /\ argv = <<"hello">>
    /\ Outcomes = {"Success"}
    /\ [k \in 1..Len(regLog) |-> regLog[k].name] = <<"greet", "hello", "greet-flags">>
    /\ [k \in 1..3 |-> registry[k].value.func] =
            <<"greet_with_positional", "hello_world", "greet_with_flags">>

\* the arguments declared on the sub-parser of a command, in the order
\* declared, the parser's own help option left out
Declared(name) == Tail(DictGet(parser.actions[2].choices, name).actions)

\* a declaration is what the spec asks for: a named option for a spec with
\* "flags", else a required positional under the spec's name
DeclaredAs(action, arg) ==
    IF "flags" \in DOMAIN arg
    THEN action.option_strings = arg.flags /\ arg.flags # <<>>
    ELSE action.option_strings = <<>> /\ action.dest = arg.name /\ action.required

\* the value a positional spec binds for a string of the command line
Bound(arg, s) ==
    IF "kwargs" \in DOMAIN arg /\ "type" \in DOMAIN arg.kwargs /\ arg.kwargs.type = "int"
    THEN VInt(PyInt(s).value)
    ELSE VStr(s)

\* C10: for each registered command the parser built declares the command's
\* arguments in the order of its registered argument list, a spec with
\* "flags" as a named option and any other as a required positional; and for
\* a command of positionals only, the i-th value of the command line is bound
\* to the i-th spec.
C10_ArgumentsInListOrder ==
    /\ parser # NoParser =>
        \A c \in 1..Len(registry) :
            LET arguments == registry[c].value.arguments
            IN  /\ Len(Declared(registry[c].key)) = Len(arguments)
                /\ \A i \in 1..Len(arguments) :
                        DeclaredAs(Declared(registry[c].key)[i], arguments[i])
    /\ args # <<>> /\ argv[1] # "status" =>
        LET arguments == DictGet(registry, argv[1]).arguments
        IN  (\A i \in 1..Len(arguments) : "flags" \notin DOMAIN arguments[i])
                => /\ Len(Rest) = Len(arguments)
                   /\ \A i \in 1..Len(arguments) :
                        DictGet(args, arguments[i].name) = Bound(arguments[i], Rest[i])

\* `greet Bob 42` bound person to Bob and age to 42, and greet greeted Bob
C10_Witness ==
    /\ Done
    /\ argv = <<"greet", "Bob", "42">>
    /\ DictGet(args, "person") = VStr("Bob")
    /\ DictGet(args, "age") = VInt(42)
    /\ Outcomes = {"Success"}
    /\ stdout = <<Greeting(VStr("Bob"), VInt(42), FALSE)>>

=============================================================================
